---------------------------- MODULE Spec2Model ----------------------------
(***************************************************************************)
(* npmrm: the bounded parallel executor (runParallel), the node_modules    *)
(* locator (findNodeModules), the size accumulator (getDirSizeBytes) and   *)
(* the orchestrator (main) of bin/npmrm.js, as state machines.  JavaScript *)
(* runs one callback at a time, so every action below is one               *)
(* run-to-completion segment of the code: from one await (or the call) to  *)
(* the next await (or the return).                                         *)
(***************************************************************************)
EXTENDS Integers, Sequences, FiniteSets, TLC

\* ------------------------------------------------------------------ bounds
\* The largest number of tasks handed to one runParallel call.
MaxTasks == 3
\* The largest concurrency limit tried (limits above N are included).
MaxConc == 3

VARIABLES
    \* ---- runParallel(tasks, concurrency)
    tasks,        \* 0..N-1 -> "ok" | "throw": how task i settles
    concurrency,  \* the limit C
    results,      \* the results array, slot i empty until written
    index,        \* the shared cursor
    spawned,      \* how many worker() calls Array.from has made
    wpc,          \* worker -> "unborn" | "await" | "done" | "threw"
    wcur,         \* worker -> its currentIndex
    tstate,       \* task -> "unstarted" | "running" | "settled"
    starts,       \* task -> how many times tasks[i]() was called
    settleLog,    \* the tasks in the order their promises settled
    rpPc,         \* "spawning" | "awaiting" | "returned" | "rejected"
    \* ---- the filesystem and options of one findNodeModules call
    fs,             \* real path -> [kind: "dir" | "file" | "link", target]
    unreadable,     \* the real directories whose readdir fails
    unresolvable,   \* the real directories whose realpath fails
    rootName,       \* the last component of path.resolve(rootPath)
    followSymlinks, \* opts.followSymlinks
    maxDepth,       \* opts.maxDepth: [finite, n]
    \* ---- findNodeModules
    nmResults,      \* results: the match paths, in discovery order
    seenRealPaths,  \* the visited real paths (used when followSymlinks)
    dirsScanned,    \* the running count of frontier nodes
    currentLevel,   \* the frontier: a sequence of [dir, depth]
    unitIndex,      \* how many units of the level runParallel has started
    upc,            \* unit -> "pending" | "realpath" | "readdir" | "statlinks" | "settled"
    ures,           \* unit -> [nodeModules, subdirs, symlinkChecks]
    fnPc,           \* "idle" | "level" | "returned"
    readdirCalls,   \* history: the paths fs.readdir was called on
    listedReal,     \* history: the real directories whose entries were read
    scanned,        \* history: the frontier nodes whose unit has run
    pruned,         \* history: the nodes dropped by the cycle guard
    progressLog,    \* history: the arguments of each onProgress call
    readdirLog,     \* history: the paths fs.readdir was called on, in call order
    leftRunning,    \* history: the nodes whose unit was unsettled when its level ended
    \* ---- main: the orchestrator
    rootExists,     \* whether fs.access(root) succeeds
    optYes,         \* opts.yes
    optJson,        \* opts.json
    mainPc,         \* "idle" | "start" | "scan" | "size" | "prompt" | "delete" | "done" | "exit"
    exitCode,       \* the process.exit code, -1 while running
    found,          \* the match paths findNodeModules returned
    rows,           \* [nmPath, size], sorted by size descending
    totalBytes,     \* the sum of the sizes
    shown,          \* what was printed: "none" | "json" | "table"
    asked,          \* whether rl.question was called
    answer,         \* the line the user typed, a sequence of characters
    deleteIndex,    \* how many delete tasks runParallel has started
    dpc,            \* row -> "pending" | "removing" | "ok" | "failed"
    removeCalls,    \* history: the paths handed to removeDir, in call order
    deleteErrors,   \* the paths whose removal threw, in completion order
    removed,        \* the final count of successes
    failed,         \* the final count of failures
    phases,         \* history: the phases finished, in order
    rmFails,        \* [fixed, paths]: when fixed, the paths whose fs.rm always fails
    \* ---- getDirSizeBytes(dirPath, { followSymlinks }), dirPath being <<>>
    unstatable,     \* the real paths whose stat / lstat fails
    szTotal,        \* total
    szPending,      \* pending: the directories of this round
    szPc,           \* "idle" | "listing" | "stating" | "returned"
    szRound,        \* how many rounds of the while loop have ended
    szDirIndex,     \* how many dirTasks runParallel has started
    szDirPc,        \* dirTask -> "pending" | "reading" | "settled"
    szDirResults,   \* dirTask -> the entry names it returned
    szNextDirs,     \* nextDirs
    szStatTasks,    \* statTasks: a sequence of [full, call: "stat" | "lstat"]
    szStatIndex,    \* how many statTasks runParallel has started
    szStatPc,       \* statTask -> "pending" | "stating" | "settled"
    szStatResults,  \* statTask -> [ok, isDir, isFile, size, full]
    szListLog,      \* history: the paths fs.readdir was called on, in call order
    szStatLog,      \* history: the paths stat'ed, in call order
    szLeftRunning,  \* history: the paths whose task was unsettled when its batch ended
    \* ---- main's size phase: runParallel(sizeTasks, DIR_CONCURRENCY), each match a
    \* directory of some files and some empty subdirectories. The tasks of a batch
    \* are alike, so a call keeps how many are waiting and how many are in flight.
    spFiles,        \* call -> the number of files in its match
    spSubdirs,      \* call -> the number of subdirectories in its match
    spStarted,      \* how many sizeTasks runParallel has started
    spPc,           \* call -> "unstarted" | "list0" | "stat0" | "list1" | "done"
    spWaiting,      \* call -> the tasks of its current batch not yet started
    spFlying,       \* call -> the tasks of its current batch in flight
    spPhase         \* "idle" | "sizing" | "returned"

rpVars == <<tasks, concurrency, results, index, spawned, wpc, wcur, tstate, starts, settleLog, rpPc>>

fsVars == <<fs, unreadable, unresolvable, rootName, followSymlinks, maxDepth>>

fnVars == <<nmResults, seenRealPaths, dirsScanned, currentLevel, unitIndex, upc, ures,
            fnPc, readdirCalls, listedReal, scanned, pruned, progressLog, readdirLog,
            leftRunning>>

mnVars == <<rootExists, optYes, optJson, mainPc, exitCode, found, rows, totalBytes, shown,
            asked, answer, deleteIndex, dpc, removeCalls, deleteErrors, removed, failed,
            phases, rmFails>>

szVars == <<unstatable, szTotal, szPending, szPc, szRound, szDirIndex, szDirPc, szDirResults,
            szNextDirs, szStatTasks, szStatIndex, szStatPc, szStatResults, szListLog,
            szStatLog, szLeftRunning>>

spVars == <<spFiles, spSubdirs, spStarted, spPc, spWaiting, spFlying, spPhase>>

vars == <<rpVars, fsVars, fnVars, mnVars, szVars, spVars>>

\* What a step of one component leaves alone.
notRpVars == <<fsVars, fnVars, mnVars, szVars, spVars>>
notFnVars == <<rpVars, mnVars, szVars, spVars>>
notMnVars == <<rpVars, fsVars, fnVars, szVars, spVars>>
notSzVars == <<rpVars, fnVars, mnVars, spVars>>
notSpVars == <<rpVars, fsVars, fnVars, mnVars, szVars>>

\* ------------------------------------------------------------ runParallel
Min(a, b) == IF a <= b THEN a ELSE b

N == Cardinality(DOMAIN tasks)

Workers == 1..MaxConc + MaxTasks

\* A slot of `new Array(tasks.length)` before it is written.
EmptySlot == [tag |-> "empty", task |-> -1]

\* What task i's promise settles to: its own value, or its own exception.
TaskValue(i) == [tag |-> "value", task |-> i]
TaskError(i) == [tag |-> "error", task |-> i]

\* The slot a task's outcome means: the value itself, or the {error: e} wrapper.
OutcomeOf(i) == IF tasks[i] = "ok" THEN TaskValue(i) ELSE TaskError(i)

\* Array.from({ length: Math.min(concurrency, tasks.length) }, ...)
WorkerCountAll(n, c) == n
WorkerCount(n, c) == Min(c, n)

\* const currentIndex = index++
NextIndexStuck(i) == i
NextIndex(i) == i + 1

\* results[currentIndex] = ...: the slot is the index claimed before the await.
StoreSlotCursor(cur, idx) == idx - 1
StoreSlot(cur, idx) == cur

\* try { ... } catch (e) { results[currentIndex] = { error: e } }
CatchesNone(kind) == FALSE
Catches(kind) == kind = "throw"

\* await Promise.all(workers): every worker promise has resolved.
ReturnReadyNoAwait == \A w \in 1..spawned : wpc[w] # "unborn"
ReturnReady == \A w \in 1..spawned : wpc[w] = "done"

InFlight == {i \in DOMAIN tasks : tstate[i] = "running"}

\* The locator is not running.
\* main's size phase is not running.
SizePhaseIdle ==
    /\ spFiles = <<>>
    /\ spSubdirs = <<>>
    /\ spStarted = 0
    /\ spPc = <<>>
    /\ spWaiting = <<>>
    /\ spFlying = <<>>
    /\ spPhase = "idle"

\* getDirSizeBytes is not running.
SizeIdle ==
    /\ SizePhaseIdle
    /\ unstatable = {}
    /\ szTotal = 0
    /\ szPending = <<>>
    /\ szPc = "idle"
    /\ szRound = 0
    /\ szDirIndex = 0
    /\ szDirPc = <<>>
    /\ szDirResults = <<>>
    /\ szNextDirs = <<>>
    /\ szStatTasks = <<>>
    /\ szStatIndex = 0
    /\ szStatPc = <<>>
    /\ szStatResults = <<>>
    /\ szListLog = <<>>
    /\ szStatLog = <<>>
    /\ szLeftRunning = {}

\* findNodeModules is not running: its own state.
FnIdle ==
    /\ nmResults = <<>>
    /\ seenRealPaths = {}
    /\ dirsScanned = 0
    /\ currentLevel = <<>>
    /\ unitIndex = 0
    /\ upc = <<>>
    /\ ures = <<>>
    /\ fnPc = "idle"
    /\ readdirCalls = {}
    /\ listedReal = {}
    /\ scanned = {}
    /\ pruned = {}
    /\ progressLog = <<>>
    /\ readdirLog = <<>>
    /\ leftRunning = {}

FindIdle ==
    /\ fs = <<>>
    /\ unreadable = {}
    /\ unresolvable = {}
    /\ rootName = ""
    /\ followSymlinks = FALSE
    /\ maxDepth = [finite |-> FALSE, n |-> 0]
    /\ nmResults = <<>>
    /\ seenRealPaths = {}
    /\ dirsScanned = 0
    /\ currentLevel = <<>>
    /\ unitIndex = 0
    /\ upc = <<>>
    /\ ures = <<>>
    /\ fnPc = "idle"
    /\ readdirCalls = {}
    /\ listedReal = {}
    /\ scanned = {}
    /\ pruned = {}
    /\ progressLog = <<>>
    /\ readdirLog = <<>>
    /\ leftRunning = {}

\* Nothing is fixed about which removals fail.
AnyRemovalMayFail == [fixed |-> FALSE, paths |-> {}]

\* The orchestrator is not running.
MainIdle ==
    /\ rootExists = TRUE
    /\ optYes = FALSE
    /\ optJson = FALSE
    /\ mainPc = "idle"
    /\ exitCode = -1
    /\ found = <<>>
    /\ rows = <<>>
    /\ totalBytes = 0
    /\ shown = "none"
    /\ asked = FALSE
    /\ answer = <<>>
    /\ deleteIndex = 0
    /\ dpc = <<>>
    /\ removeCalls = <<>>
    /\ deleteErrors = <<>>
    /\ removed = 0
    /\ failed = 0
    /\ phases = <<>>
    /\ rmFails = AnyRemovalMayFail

InitRP ==
    /\ SizeIdle
    /\ FindIdle
    /\ MainIdle
    /\ \E n \in 0..MaxTasks : tasks \in [0..n-1 -> {"ok", "throw"}]
    /\ concurrency \in 1..MaxConc
    /\ results = [i \in DOMAIN tasks |-> EmptySlot]
    /\ index = 0
    /\ spawned = 0
    /\ wpc = [w \in Workers |-> "unborn"]
    /\ wcur = [w \in Workers |-> -1]
    /\ tstate = [i \in DOMAIN tasks |-> "unstarted"]
    /\ starts = [i \in DOMAIN tasks |-> 0]
    /\ settleLog = <<>>
    /\ rpPc = "spawning"

\* The head of worker w's loop, run without suspension up to the await:
\* while (index < tasks.length) { const currentIndex = index++; tasks[currentIndex]() ...
WorkerLoop(w) ==
    IF index < N
    THEN /\ wcur' = [wcur EXCEPT ![w] = index]
         /\ index' = NextIndex(index)
         /\ tstate' = [tstate EXCEPT ![index] = "running"]
         /\ starts' = [starts EXCEPT ![index] = @ + 1]
         /\ wpc' = [wpc EXCEPT ![w] = "await"]
    ELSE /\ wpc' = [wpc EXCEPT ![w] = "done"]
         /\ UNCHANGED <<wcur, index, tstate, starts>>

\* One () => worker() call of Array.from: the worker runs to its first await.
SpawnWorker ==
    /\ rpPc = "spawning"
    /\ spawned < WorkerCount(N, concurrency)
    /\ spawned' = spawned + 1
    /\ WorkerLoop(spawned + 1)
    /\ UNCHANGED <<tasks, concurrency, results, settleLog, rpPc>>
    /\ UNCHANGED notRpVars

\* The caller reaches `await Promise.all(workers)`.
AwaitAll ==
    /\ rpPc = "spawning"
    /\ spawned = WorkerCount(N, concurrency)
    /\ rpPc' = "awaiting"
    /\ UNCHANGED <<tasks, concurrency, results, index, spawned, wpc, wcur, tstate, starts, settleLog>>
    /\ UNCHANGED notRpVars

\* The promise of task i settles (its I/O completes), in any order.
TaskSettle(i) ==
    /\ tstate[i] = "running"
    /\ tstate' = [tstate EXCEPT ![i] = "settled"]
    /\ settleLog' = Append(settleLog, i)
    /\ UNCHANGED <<tasks, concurrency, results, index, spawned, wpc, wcur, starts, rpPc>>
    /\ UNCHANGED notRpVars

\* Worker w resumes after its await: stores the outcome, then loops.
WorkerResume(w) ==
    /\ rpPc # "spawning"
    /\ wpc[w] = "await"
    /\ tstate[wcur[w]] = "settled"
    /\ LET cur == wcur[w] IN
       IF tasks[cur] = "ok" \/ Catches(tasks[cur])
       THEN /\ results' = [results EXCEPT ![StoreSlot(cur, index)] = OutcomeOf(cur)]
            /\ WorkerLoop(w)
            /\ UNCHANGED rpPc
       ELSE \* the exception leaves worker(): its promise rejects, and Promise.all with it
            /\ wpc' = [wpc EXCEPT ![w] = "threw"]
            /\ rpPc' = IF rpPc = "awaiting" THEN "rejected" ELSE rpPc
            /\ UNCHANGED <<results, wcur, index, tstate, starts>>
    /\ UNCHANGED <<tasks, concurrency, spawned, settleLog>>
    /\ UNCHANGED notRpVars

\* Promise.all resolves and runParallel returns results.
Return ==
    /\ rpPc = "awaiting"
    /\ ReturnReady
    /\ rpPc' = "returned"
    /\ UNCHANGED <<tasks, concurrency, results, index, spawned, wpc, wcur, tstate, starts, settleLog>>
    /\ UNCHANGED notRpVars

NextRP ==
    \/ SpawnWorker
    \/ AwaitAll
    \/ \E i \in DOMAIN tasks : TaskSettle(i)
    \/ \E w \in Workers : WorkerResume(w)
    \/ Return

SpecRP == InitRP /\ [][NextRP]_vars

\* Every enabled continuation is eventually run by the event loop, and every
\* started task eventually settles (the proviso of the completion claim).
SpecRPFair ==
    /\ SpecRP
    /\ WF_vars(SpawnWorker)
    /\ WF_vars(AwaitAll)
    /\ \A i \in 0..MaxTasks : WF_vars(i \in DOMAIN tasks /\ TaskSettle(i))
    /\ \A w \in Workers : WF_vars(WorkerResume(w))
    /\ WF_vars(Return)

\* ------------------------------------------------- claims about runParallel

\* C1: order alignment. A written slot i holds the outcome of task i and of no
\* other task, whatever order the tasks settled in; when the call has returned,
\* the array has exactly the N slots 0..N-1 and every one of them is written.
C1_OrderAlignment ==
    /\ DOMAIN results = 0..N-1
    /\ \A i \in DOMAIN results : results[i] \in {EmptySlot, OutcomeOf(i)}
    /\ rpPc = "returned" => \A i \in 0..N-1 : results[i] = OutcomeOf(i)

\* A call with 1 <= C <= N has returned after two tasks settled against their
\* start order.
C1_Witness ==
    /\ rpPc = "returned"
    /\ N >= 2
    /\ concurrency <= N
    /\ \E j, k \in 1..Len(settleLog) : j < k /\ settleLog[j] > settleLog[k]

\* C2: concurrency ceiling. The tasks started and not yet settled are never more
\* than C, and never more than N.
C2_ConcurrencyCeiling ==
    /\ Cardinality(InFlight) <= concurrency
    /\ Cardinality(InFlight) <= N

\* The limit binds: C >= 2 tasks are in flight while another waits unstarted.
C2_Witness ==
    /\ concurrency >= 2
    /\ Cardinality(InFlight) = concurrency
    /\ \E i \in DOMAIN tasks : tstate[i] = "unstarted"

\* C3: exactly-once claim. No index is started twice, the started indices are
\* exactly those below the cursor (none skipped), no two workers hold the same
\* index, and when the call has returned every index was started exactly once.
C3_ExactlyOnceClaim ==
    /\ \A i \in DOMAIN tasks : starts[i] = (IF i < index THEN 1 ELSE 0)
    /\ index <= N
    /\ \A v, w \in Workers :
          (v # w /\ wpc[v] = "await" /\ wpc[w] = "await") => wcur[v] # wcur[w]
    /\ rpPc = "returned" => \A i \in 0..N-1 : starts[i] = 1

\* A returned call in which fewer workers than tasks shared the cursor.
C3_Witness ==
    /\ rpPc = "returned"
    /\ concurrency >= 2
    /\ N > concurrency

\* C4: failure isolation. The call never rejects and no worker dies of a task's
\* exception; when it has returned, each failing task's slot holds the error
\* wrapper, and every other task was started and its own value is in its slot.
C4_FailureIsolation ==
    /\ rpPc # "rejected"
    /\ \A w \in Workers : wpc[w] # "threw"
    /\ rpPc = "returned" =>
          \A i \in 0..N-1 :
             /\ starts[i] >= 1
             /\ tasks[i] = "throw" => results[i] = TaskError(i)
             /\ tasks[i] = "ok" => results[i] = TaskValue(i)

\* A returned call in which a task failed and a later task still delivered.
C4_Witness ==
    /\ rpPc = "returned"
    /\ \E i, j \in DOMAIN tasks : i < j /\ tasks[i] = "throw" /\ tasks[j] = "ok"

\* C5: completion. Provided every started task settles, the call returns; when
\* it returns every task has been started and has settled; with no task it
\* returns the empty array, no worker having been created.
C5_Completion ==
    /\ <>(rpPc = "returned")
    /\ [](rpPc = "returned" =>
            /\ \A i \in 0..N-1 : tstate[i] = "settled" /\ starts[i] >= 1
            /\ N = 0 => (results = <<>> /\ spawned = 0 /\ index = 0))

\* A call over several tasks has returned.
C5_Witness ==
    /\ rpPc = "returned"
    /\ N >= 2
    /\ Len(settleLog) = N

\* ------------------------------------------------------------- filesystem
\* The largest finite --max-depth tried.
MaxDepthOpt == 2

DIR_CONCURRENCY == 128

\* The scan root's own name: an ordinary one, or node_modules itself.
RootNames == {"app", "node_modules"}

Dir == [kind |-> "dir", target |-> <<>>]
File == [kind |-> "file", target |-> <<>>]
Link(t) == [kind |-> "link", target |-> t]

\* The path no entry has: what a failed resolution yields.
ENOENT == <<"ENOENT">>

\* The order in which a listing returns names.
NameSeq == <<".cache", ".git", "a", "b", "e", "f", "g", "h", "lnk", "node_modules", "x">>

Front(p) == SubSeq(p, 1, Len(p) - 1)
Last(p) == p[Len(p)]
IsPrefix(p, q) == Len(p) <= Len(q) /\ SubSeq(q, 1, Len(p)) = p

\* path.join(dir, ent.name)
Join(dir, name) == Append(dir, name)

\* The trees tried: a root holding directory a and file f, with any of these
\* subtrees present, and an entry lnk that is absent or a symbolic link.
OptTop == (<<"node_modules">> :> Dir)
\* An entry named node_modules that is a symbolic link: to a file, to nothing.
OptTopLinks == {(<<"node_modules">> :> Link(<<"f">>)), (<<"node_modules">> :> Link(<<"gone">>))}
OptNested ==
    (<<"a", "node_modules">> :> Dir) @@ (<<"a", "node_modules", "node_modules">> :> Dir)
    @@ (<<"a", "node_modules", "node_modules", "x">> :> Dir)
OptGit == (<<"a", ".git">> :> Dir) @@ (<<"a", ".git", "node_modules">> :> Dir)
OptDeep == (<<"a", "b">> :> Dir) @@ (<<"a", "b", "node_modules">> :> Dir)
OptCache == (<<".cache">> :> Dir) @@ (<<".cache", "node_modules">> :> Dir)
BaseTree == (<<>> :> Dir) @@ (<<"a">> :> Dir) @@ (<<"f">> :> File)

Opt(t, part) == IF t THEN part ELSE <<>>

\* Where lnk may point: the root (a cycle), a, a matched directory, an ignored
\* directory, a file, nothing.
LinkTargets ==
    {<<>>, <<"a">>, <<"a", "node_modules">>, <<"a", ".git">>, <<"f">>, <<"gone">>}

Trees ==
    {BaseTree @@ top @@ Opt(t[2], OptNested) @@ Opt(t[3], OptGit)
        @@ Opt(t[4], OptDeep) @@ Opt(t[5], OptCache) @@ l :
        t \in [2..5 -> BOOLEAN],
        top \in {<<>>, OptTop} \cup OptTopLinks,
        l \in {<<>>} \cup {(<<"lnk">> :> Link(x)) : x \in LinkTargets}}

\* The failures tried: none, a readdir that fails, a realpath that fails.
FailureCases ==
    {[readdir |-> {}, realpath |-> {}], [readdir |-> {<<"a">>}, realpath |-> {}],
     [readdir |-> {<<"a", "b">>}, realpath |-> {}], [readdir |-> {}, realpath |-> {<<"a">>}]}

\* The canonical path of p: every symbolic link on the way replaced by its
\* target; ENOENT when a component does not exist.
RECURSIVE Resolve(_)
Resolve(p) ==
    IF p = <<>> THEN <<>>
    ELSE LET par == Resolve(Front(p))
             q == Append(par, Last(p))
         IN  IF par = ENOENT \/ q \notin DOMAIN fs THEN ENOENT
             ELSE IF fs[q].kind = "link"
                  THEN (IF fs[q].target \in DOMAIN fs THEN fs[q].target ELSE ENOENT)
                  ELSE q

\* fs.readdir(dir) succeeds: dir resolves to a readable directory.
ReaddirOk(dir) ==
    LET r == Resolve(dir) IN
    r # ENOENT /\ fs[r].kind = "dir" /\ r \notin unreadable

\* The names fs.readdir(dir) returns, in listing order.
EntryNames(dir) ==
    LET r == Resolve(dir)
        present(n) == Append(r, n) \in DOMAIN fs
    IN  SelectSeq(NameSeq, present)

\* The Dirent type of entry name of dir: the entry's own kind, links not followed.
EntryKind(dir, name) == fs[Append(Resolve(dir), name)].kind

\* fs.stat(full) succeeds and st.isDirectory(): links are followed.
StatIsDirectory(full) ==
    LET r == Resolve(full) IN r # ENOENT /\ fs[r].kind = "dir"

\* -------------------------------------------------------- findNodeModules
MapSeq(s, f(_)) == [k \in 1..Len(s) |-> f(s[k])]

RECURSIVE Flatten(_)
Flatten(ss) == IF ss = <<>> THEN <<>> ELSE Head(ss) \o Flatten(Tail(ss))

\* function shouldSkipDirName(name)
ShouldSkipCacheOnly(name) == name = ".cache"
ShouldSkipDirName(name) == name = ".git" \/ name = ".cache"

\* Number.isFinite(maxDepth) && depth > maxDepth
DepthExceededOffByOne(depth, max) == max.finite /\ depth >= max.n
DepthExceeded(depth, max) == max.finite /\ depth > max.n

\* return { nodeModules: [], subdirs: [] }
EmptyResult == [nodeModules |-> <<>>, subdirs |-> <<>>, symlinkChecks |-> <<>>]

\* The loop over the entries of dir: the matches, the directories to enqueue
\* and the symbolic links to stat, each in listing order.
Classify(dir, depth) ==
    LET considered(n) == EntryKind(dir, n) \in {"dir", "link"}
        isMatch(n) == considered(n) /\ n = "node_modules"
        kept(n) == considered(n) /\ n # "node_modules" /\ ~ShouldSkipDirName(n)
        isSubdir(n) == kept(n) /\ EntryKind(dir, n) = "dir"
        isCheck(n) == kept(n) /\ EntryKind(dir, n) = "link" /\ followSymlinks
        full(n) == Join(dir, n)
        node(n) == [dir |-> Join(dir, n), depth |-> depth + 1]
        names == EntryNames(dir)
    IN  [nodeModules |-> MapSeq(SelectSeq(names, isMatch), full),
         subdirs |-> MapSeq(SelectSeq(names, isSubdir), node),
         symlinkChecks |-> MapSeq(SelectSeq(names, isCheck), node)]

\* The symlinkChecks whose fs.stat says directory, in order.
CheckedDirs(checks) ==
    LET isDir(c) == StatIsDirectory(c.dir) IN SelectSeq(checks, isDir)

\* fs.realpath(dir): the canonical path, or a failure.
Realpath(dir) ==
    LET r == Resolve(dir) IN IF r \in unresolvable THEN ENOENT ELSE r

\* seenRealPaths.has(real)
AlreadySeenNever(real, seen) == FALSE
AlreadySeen(real, seen) == real \in seen

\* await runParallel(tasks, DIR_CONCURRENCY) resumes: every unit has settled.
BatchSettledEarly(pcs) == TRUE
BatchSettled(pcs) == \A i \in 1..Len(pcs) : pcs[i] = "settled"

\* results.push(...result.nodeModules) over the level's results, in unit order.
LevelMatchesOfFirst(rs) == IF rs = <<>> THEN <<>> ELSE rs[1].nodeModules
LevelMatches(rs) ==
    LET matches(r) == r.nodeModules IN Flatten(MapSeq(rs, matches))

UnitsInFlight == {i \in 1..Len(upc) : upc[i] \in {"realpath", "readdir", "statlinks"}}

\* runParallel has made its first min(DIR_CONCURRENCY, n) task calls, which run
\* in one piece; no continuation runs before that.
StartedFirstBatch == unitIndex >= Min(DIR_CONCURRENCY, Len(currentLevel))

\* No runParallel call of its own is in progress.
RPIdle ==
    /\ tasks = <<>>
    /\ concurrency = 1
    /\ results = <<>>
    /\ index = 0
    /\ spawned = 0
    /\ wpc = [w \in Workers |-> "unborn"]
    /\ wcur = [w \in Workers |-> -1]
    /\ tstate = <<>>
    /\ starts = <<>>
    /\ settleLog = <<>>
    /\ rpPc = "idle"

\* findNodeModules(rootPath, { followSymlinks, maxDepth, onProgress }) is entered.
FindEntered ==
    /\ fs \in Trees
    /\ \E c \in FailureCases : unreadable = c.readdir /\ unresolvable = c.realpath
    /\ rootName \in RootNames
    /\ followSymlinks \in BOOLEAN
    /\ rootName = "node_modules" => ~followSymlinks /\ unreadable = {} /\ unresolvable = {}
    \* a failure is tried where it can be met
    /\ unresolvable # {} => followSymlinks
    /\ unreadable \subseteq DOMAIN fs
    /\ maxDepth \in {[finite |-> FALSE, n |-> 0]} \cup {[finite |-> TRUE, n |-> d] : d \in 0..MaxDepthOpt}
    /\ nmResults = <<>>
    /\ seenRealPaths = {}
    /\ dirsScanned = 0
    /\ currentLevel = <<[dir |-> <<>>, depth |-> 0]>>
    /\ unitIndex = 0
    /\ upc = <<"pending">>
    /\ ures = <<EmptyResult>>
    /\ fnPc = "level"
    /\ readdirCalls = {}
    /\ listedReal = {}
    /\ scanned = {}
    /\ pruned = {}
    /\ progressLog = <<>>
    /\ readdirLog = <<>>
    /\ leftRunning = {}

InitFind ==
    /\ RPIdle
    /\ SizeIdle
    /\ MainIdle
    /\ FindEntered

\* runParallel calls the next unit of the level, which runs to its first await.
UnitStart ==
    /\ fnPc = "level"
    /\ unitIndex < Len(currentLevel)
    /\ Cardinality(UnitsInFlight) < DIR_CONCURRENCY
    /\ LET i == unitIndex + 1
           node == currentLevel[i]
       IN  /\ unitIndex' = i
           /\ scanned' = scanned \cup {node}
           /\ IF DepthExceeded(node.depth, maxDepth)
              THEN /\ upc' = [upc EXCEPT ![i] = "settled"]
                   /\ UNCHANGED <<readdirCalls, readdirLog>>
              ELSE IF followSymlinks
              THEN /\ upc' = [upc EXCEPT ![i] = "realpath"]
                   /\ UNCHANGED <<readdirCalls, readdirLog>>
              ELSE /\ upc' = [upc EXCEPT ![i] = "readdir"]
                   /\ readdirCalls' = readdirCalls \cup {node.dir}
                   /\ readdirLog' = Append(readdirLog, node.dir)
    /\ UNCHANGED <<nmResults, seenRealPaths, dirsScanned, currentLevel, ures, fnPc,
                   listedReal, pruned, progressLog, leftRunning>>
    /\ UNCHANGED <<fsVars, notFnVars>>

\* fs.realpath(dir) settles: the cycle guard, then the call of fs.readdir.
AfterRealpath(i) ==
    /\ fnPc = "level"
    /\ StartedFirstBatch
    /\ i \in 1..Len(upc)
    /\ upc[i] = "realpath"
    /\ LET node == currentLevel[i]
           real == Realpath(node.dir)
       IN  IF real = ENOENT \/ AlreadySeen(real, seenRealPaths)
           THEN /\ upc' = [upc EXCEPT ![i] = "settled"]
                /\ pruned' = pruned \cup {node}
                /\ UNCHANGED <<seenRealPaths, readdirCalls, readdirLog>>
           ELSE /\ seenRealPaths' = seenRealPaths \cup {real}
                /\ upc' = [upc EXCEPT ![i] = "readdir"]
                /\ readdirCalls' = readdirCalls \cup {node.dir}
                /\ readdirLog' = Append(readdirLog, node.dir)
                /\ UNCHANGED pruned
    /\ UNCHANGED <<nmResults, dirsScanned, currentLevel, unitIndex, ures, fnPc,
                   listedReal, scanned, progressLog, leftRunning>>
    /\ UNCHANGED <<fsVars, notFnVars>>

\* fs.readdir(dir) settles: a failure gives the empty result; otherwise the
\* entries are classified and the symbolic links, if any, are stat'ed together.
AfterReaddir(i) ==
    /\ fnPc = "level"
    /\ StartedFirstBatch
    /\ i \in 1..Len(upc)
    /\ upc[i] = "readdir"
    /\ LET node == currentLevel[i] IN
       IF ~ReaddirOk(node.dir)
       THEN /\ upc' = [upc EXCEPT ![i] = "settled"]
            /\ UNCHANGED <<ures, listedReal>>
       ELSE LET c == Classify(node.dir, node.depth) IN
            /\ listedReal' = listedReal \cup {Resolve(node.dir)}
            /\ ures' = [ures EXCEPT ![i] = c]
            /\ upc' = [upc EXCEPT ![i] =
                          IF c.symlinkChecks # <<>> THEN "statlinks" ELSE "settled"]
    /\ UNCHANGED <<nmResults, seenRealPaths, dirsScanned, currentLevel, unitIndex, fnPc,
                   readdirCalls, scanned, pruned, progressLog, readdirLog, leftRunning>>
    /\ UNCHANGED <<fsVars, notFnVars>>

\* Promise.all over the fs.stat calls settles: the links that are directories
\* are pushed to subdirs.
AfterStats(i) ==
    /\ fnPc = "level"
    /\ StartedFirstBatch
    /\ i \in 1..Len(upc)
    /\ upc[i] = "statlinks"
    /\ ures' = [ures EXCEPT ![i].subdirs = @ \o CheckedDirs(ures[i].symlinkChecks)]
    /\ upc' = [upc EXCEPT ![i] = "settled"]
    /\ UNCHANGED <<nmResults, seenRealPaths, dirsScanned, currentLevel, unitIndex, fnPc,
                   readdirCalls, listedReal, scanned, pruned, progressLog, readdirLog,
                   leftRunning>>
    /\ UNCHANGED <<fsVars, notFnVars>>

\* runParallel returns the level's batch: the matches and the next frontier are
\* assembled in unit order, onProgress is called, and the loop goes on or ends.
FinishLevel ==
    /\ fnPc = "level"
    /\ unitIndex = Len(currentLevel)
    /\ BatchSettled(upc)
    /\ LET subs(r) == r.subdirs
           nextLevel == Flatten(MapSeq(ures, subs))
           allMatches == nmResults \o LevelMatches(ures)
           scannedNow == dirsScanned + Len(currentLevel)
       IN  /\ dirsScanned' = scannedNow
           /\ nmResults' = allMatches
           /\ progressLog' = Append(progressLog,
                                [dirsScanned |-> scannedNow, nodeModulesFound |-> Len(allMatches)])
           /\ currentLevel' = nextLevel
           /\ unitIndex' = 0
           /\ upc' = [k \in 1..Len(nextLevel) |-> "pending"]
           /\ ures' = [k \in 1..Len(nextLevel) |-> EmptyResult]
           /\ fnPc' = IF Len(nextLevel) > 0 THEN "level" ELSE "returned"
           /\ leftRunning' = leftRunning \cup
                  {currentLevel[k] : k \in {j \in 1..Len(upc) : upc[j] # "settled"}}
    /\ UNCHANGED <<seenRealPaths, readdirCalls, listedReal, scanned, pruned, readdirLog>>
    /\ UNCHANGED <<fsVars, notFnVars>>

NextFind ==
    \/ UnitStart
    \/ \E i \in 1..Len(upc) : AfterRealpath(i)
    \/ \E i \in 1..Len(upc) : AfterReaddir(i)
    \/ \E i \in 1..Len(upc) : AfterStats(i)
    \/ FinishLevel

SpecFind == InitFind /\ [][NextFind]_vars

\* The event loop runs every callback that is ready: a step that stays possible
\* is taken.
SpecFindFair == SpecFind /\ WF_vars(NextFind)

\* --------------------------------------------- claims about findNodeModules
Range(s) == {s[k] : k \in 1..Len(s)}

\* The real directories behind the matches recorded so far.
MatchReal == {Resolve(m) : m \in Range(nmResults)} \ {ENOENT}

\* The cycle guard is on and nothing else bounds the walk.
GuardOnly == followSymlinks /\ ~maxDepth.finite

NoRealPathListedTwice ==
    \A j, k \in 1..Len(readdirLog) :
       j < k => Resolve(readdirLog[j]) # Resolve(readdirLog[k])

NoMatchReportedTwice ==
    \A j, k \in 1..Len(nmResults) :
       j < k => /\ nmResults[j] # nmResults[k]
                /\ Resolve(Front(nmResults[j])) # Resolve(Front(nmResults[k]))

\* C11: symlink cycle termination. With --follow-symlinks and no depth limit,
\* on every tree tried (symbolic links back to the root among them) the scan
\* returns; under every interleaving of a level's units no real directory is
\* handed to readdir twice, and no match is reported twice, by path or by the
\* real directory it was found in.
C11_SymlinkCycleTermination ==
    /\ [](GuardOnly => NoRealPathListedTwice /\ NoMatchReportedTwice)
    /\ (GuardOnly ~> fnPc = "returned")

\* A scan that returned after the cycle guard dropped lnk, a link to the root.
C11_Witness ==
    /\ GuardOnly
    /\ fnPc = "returned"
    /\ <<"lnk">> \in DOMAIN fs
    /\ fs[<<"lnk">>].target = <<>>
    /\ [dir |-> <<"lnk">>, depth |-> 1] \in pruned
    /\ Len(nmResults) >= 2

\* One unit run from its call to its return with nothing in between: the
\* result and the visited set it leaves.
RefUnit(node, seen) ==
    LET real == Realpath(node.dir)
        c == Classify(node.dir, node.depth)
        listed == [res |-> IF ReaddirOk(node.dir)
                           THEN [c EXCEPT !.subdirs = @ \o CheckedDirs(c.symlinkChecks)]
                           ELSE EmptyResult,
                   seen |-> IF followSymlinks THEN seen \cup {real} ELSE seen]
    IN  IF DepthExceeded(node.depth, maxDepth) THEN [res |-> EmptyResult, seen |-> seen]
        ELSE IF followSymlinks /\ (real = ENOENT \/ AlreadySeen(real, seen))
             THEN [res |-> EmptyResult, seen |-> seen]
        ELSE listed

\* The units of a level run one after the other, in frontier order.
RECURSIVE RefLevel(_, _)
RefLevel(level, seen) ==
    IF level = <<>> THEN [rs |-> <<>>, seen |-> seen]
    ELSE LET u == RefUnit(Head(level), seen)
             rest == RefLevel(Tail(level), u.seen)
         IN  [rs |-> <<u.res>> \o rest.rs, seen |-> rest.seen]

\* The whole scan with every level's units completing in frontier order.
RECURSIVE RefScan(_, _, _)
RefScan(level, seen, acc) ==
    IF level = <<>> THEN acc
    ELSE LET l == RefLevel(level, seen)
             subs(r) == r.subdirs
         IN  RefScan(Flatten(MapSeq(l.rs, subs)), l.seen, acc \o LevelMatches(l.rs))

\* What the run whose operations complete in call order returns.
InOrderMatches == RefScan(<<[dir |-> <<>>, depth |-> 0]>>, {}, <<>>)

\* C12: idempotent re-scan. On an unchanged tree with fixed options every run
\* returns the same set of match paths, whatever order the operations of a
\* level complete in: the set returned is the one the in-order run returns.
C12_IdempotentRescan ==
    fnPc = "returned" => Range(nmResults) = Range(InOrderMatches)

\* The same with --follow-symlinks off: the part of C12 the code keeps.
C12_IdempotentWithoutSymlinks == ~followSymlinks => C12_IdempotentRescan

\* With --follow-symlinks on, the real directories behind the matches are still
\* the same in every run.
C12_SameRealDirectories ==
    fnPc = "returned" =>
       {Resolve(Front(m)) : m \in Range(nmResults)}
          = {Resolve(Front(m)) : m \in Range(InOrderMatches)}

\* The paths whose readdir succeeded, and those whose readdir failed.
ListedOk == {p \in Range(readdirLog) : ReaddirOk(p)}
ListedFailed == {p \in Range(readdirLog) : ~ReaddirOk(p)}

\* The entries of a listed directory the walk goes on with.
Enqueued(p) ==
    {Join(p, n) : n \in {m \in Range(EntryNames(p)) :
        /\ m # "node_modules"
        /\ ~ShouldSkipDirName(m)
        /\ \/ EntryKind(p, m) = "dir"
           \/ EntryKind(p, m) = "link" /\ followSymlinks /\ StatIsDirectory(Join(p, m))}}

\* Every match and every subdirectory of a directory whose listing succeeded is
\* taken up, and every node taken up is listed unless the depth limit, the
\* cycle guard or a realpath failure drops it.
ReachableReturned ==
    /\ \A p \in ListedOk :
          /\ "node_modules" \in Range(EntryNames(p))
                /\ EntryKind(p, "node_modules") \in {"dir", "link"}
                => Join(p, "node_modules") \in Range(nmResults)
          /\ \A q \in Enqueued(p) : [dir |-> q, depth |-> Len(q)] \in scanned
    /\ \A n \in scanned :
          \/ DepthExceeded(n.depth, maxDepth)
          \/ followSymlinks /\ n \in pruned
          \/ n.dir \in Range(readdirLog)

\* A directory whose listing or realpath failed contributes nothing.
FailedIsEmpty ==
    \A p \in ListedFailed \cup {n.dir : n \in pruned} :
       /\ \A m \in Range(nmResults) : Front(m) # p
       /\ \A n \in scanned : n.dir = <<>> \/ Front(n.dir) # p

\* C17: listing failures are not fatal. Whatever directories fail to list (or,
\* with --follow-symlinks, to resolve; a link whose stat fails is not followed),
\* the scan returns, a failing directory contributes nothing, and every match
\* reachable through directories whose listing succeeded is returned.
C17_ListingFailuresNonFatal ==
    /\ [](fnPc = "returned" => ReachableReturned /\ FailedIsEmpty)
    /\ <>(fnPc = "returned")

\* A returned scan in which a/b could not be listed and a/node_modules, beside
\* it, is reported.
C17_Witness ==
    /\ fnPc = "returned"
    /\ unreadable = {<<"a", "b">>}
    /\ <<"a", "b", "node_modules">> \in DOMAIN fs
    /\ <<"a", "b">> \in ListedFailed
    /\ <<"a", "node_modules">> \in Range(nmResults)
    /\ <<"a", "b", "node_modules">> \notin Range(nmResults)

\* C18: every match is a confirmed directory named node_modules. No returned
\* path is a symbolic link to a file or to nothing, whatever the options, and
\* with --follow-symlinks off no returned path is a symbolic link at all.
C18_MatchesAreDirectories ==
    \A m \in Range(nmResults) :
       /\ Last(m) = "node_modules"
       /\ StatIsDirectory(m)
       /\ ~followSymlinks => EntryKind(Front(m), Last(m)) # "link"

\* C7: no descend into a match. Whatever the tree and the options, the entries
\* of a directory recorded as a match, or of a directory below one, are never
\* read, and no recorded match lies below another recorded match.
C7_NoDescendIntoMatch ==
    \A m \in MatchReal :
       /\ \A r \in listedReal : ~IsPrefix(m, r)
       /\ \A m2 \in MatchReal : m2 = m \/ ~IsPrefix(m, m2)

\* The same with --follow-symlinks off: the part of C7 the code keeps.
C7_NoDescendWithoutSymlinks ==
    ~followSymlinks =>
       /\ C7_NoDescendIntoMatch
       /\ \A p \in readdirCalls : \A k \in 1..Len(p) : p[k] # "node_modules"

\* C8: a scan root named node_modules is reported as a match and its entries
\* are not read.
C8_RootNamedNodeModules ==
    rootName = "node_modules" =>
       /\ <<>> \notin readdirCalls
       /\ fnPc = "returned" => <<>> \in Range(nmResults)

HasIgnored(p) == \E k \in 1..Len(p) : p[k] \in {".git", ".cache"}

Undecided == {currentLevel[i] : i \in {j \in 1..Len(upc) : upc[j] \in {"pending", "realpath"}}}

\* The node_modules entries a walk without symbolic links can reach: every
\* directory above is readable and is named neither node_modules nor ignored.
LexMatches ==
    {m \in DOMAIN fs :
        /\ Len(m) >= 1
        /\ Last(m) = "node_modules"
        /\ fs[m].kind \in {"dir", "link"}
        /\ \A k \in 0..Len(m)-1 :
              LET anc == SubSeq(m, 1, k) IN
              /\ fs[anc].kind = "dir"
              /\ anc \notin unreadable
              /\ k >= 1 => anc[k] \notin {"node_modules", ".git", ".cache"}}

\* C10: depth limiting. With a finite maximum depth D and the root at depth 0,
\* a frontier node's depth is its distance from the root; readdir is called on
\* a frontier node if and only if its depth is at most D (and the cycle guard
\* did not drop it); a reported match has its parent at depth at most D; with
\* D = 0 only the root is read; and without symbolic links the matches
\* returned are exactly the reachable ones whose parent is at depth at most D.
C10_DepthLimiting ==
    maxDepth.finite =>
       /\ \A n \in scanned \cup Range(currentLevel) : n.depth = Len(n.dir)
       /\ \A p \in readdirCalls : Len(p) <= maxDepth.n
       /\ \A n \in scanned \ Undecided :
             n.dir \in readdirCalls <=> (n.depth <= maxDepth.n /\ n \notin pruned)
       /\ \A m \in Range(nmResults) : Len(m) - 1 <= maxDepth.n
       /\ maxDepth.n = 0 => readdirCalls \subseteq {<<>>}
       /\ (fnPc = "returned" /\ ~followSymlinks) =>
             \A m \in LexMatches : m \in Range(nmResults) <=> Len(m) - 1 <= maxDepth.n

\* With D = 1 the scan is over: a/b, at depth 2, was dequeued and not read, and
\* a/b/node_modules is not reported.
C10_Witness ==
    /\ fnPc = "returned"
    /\ maxDepth = [finite |-> TRUE, n |-> 1]
    /\ <<"a", "b", "node_modules">> \in DOMAIN fs
    /\ [dir |-> <<"a", "b">>, depth |-> 2] \in scanned
    /\ <<"a", "b">> \notin readdirCalls
    /\ <<"a", "b", "node_modules">> \notin Range(nmResults)

\* --------------------------------------------------------- getDirSizeBytes
STAT_CONCURRENCY == 256

\* The largest number of rounds of the while loop a call is followed for.
MaxRounds == 4

FileOf(n) == [kind |-> "file", target |-> <<>>, size |-> n]

\* The directories sized: any of these parts present, and an entry lnk that is
\* absent or a symbolic link.
OptExample ==
    (<<"f">> :> FileOf(100)) @@ (<<"g">> :> FileOf(200)) @@ (<<"h">> :> FileOf(300))
    @@ (<<"e">> :> Dir)
OptInnerModules == (<<"node_modules">> :> Dir) @@ (<<"node_modules", "x">> :> FileOf(1000))
OptInnerGit ==
    (<<".git">> :> Dir) @@ (<<".git", ".cache">> :> Dir)
    @@ (<<".git", ".cache", "x">> :> FileOf(4000))

\* Where lnk may point: the sized directory itself (its own parent), a file, a
\* subdirectory, nothing.
SizeLinkTargets == {<<>>, <<"f">>, <<"e">>, <<"gone">>}

SizeTrees ==
    {(<<>> :> Dir) @@ Opt(t[1], OptExample) @@ Opt(t[2], OptInnerModules)
        @@ Opt(t[3], OptInnerGit) @@ l :
        t \in [1..3 -> BOOLEAN],
        l \in {<<>>} \cup {(<<"lnk">> :> Link(x)) : x \in SizeLinkTargets}}

\* The failures tried: none, a readdir that fails, an lstat that fails.
SizeFailureCases ==
    {[readdir |-> {}, stat |-> {}], [readdir |-> {<<"node_modules">>}, stat |-> {}],
     [readdir |-> {}, stat |-> {<<"f">>}]}

\* The entries of one listed directory that go to nextDirs at once.
UnitDirsSkipping(dir, entries) ==
    LET isDir(n) == EntryKind(dir, n) = "dir" /\ n # "node_modules" /\ ~ShouldSkipDirName(n)
        full(n) == Join(dir, n)
    IN  MapSeq(SelectSeq(entries, isDir), full)
UnitDirs(dir, entries) ==
    LET isDir(n) == EntryKind(dir, n) = "dir"
        full(n) == Join(dir, n)
    IN  MapSeq(SelectSeq(entries, isDir), full)

\* The stat tasks one listed directory gives rise to, in entry order: fs.stat
\* for a symbolic link when following, fs.lstat for a file.
UnitStats(dir, entries) ==
    LET queued(n) ==
            \/ EntryKind(dir, n) = "link" /\ followSymlinks
            \/ EntryKind(dir, n) = "file"
        task(n) == [full |-> Join(dir, n),
                    call |-> IF EntryKind(dir, n) = "link" THEN "stat" ELSE "lstat"]
    IN  MapSeq(SelectSeq(entries, queued), task)

\* return null
NoStat == [ok |-> FALSE, isDir |-> FALSE, isFile |-> FALSE, size |-> 0, full |-> <<>>]

\* What a stat task returns: fs.stat follows links, fs.lstat does not.
StatResult(task) ==
    LET r == IF task.call = "stat" THEN Resolve(task.full)
             ELSE Append(Resolve(Front(task.full)), Last(task.full))
    IN  IF r = ENOENT \/ r \notin DOMAIN fs \/ r \in unstatable THEN NoStat
        ELSE [ok |-> TRUE,
              isDir |-> IF task.call = "stat" THEN fs[r].kind = "dir" ELSE FALSE,
              isFile |-> IF task.call = "stat" THEN fs[r].kind = "file" ELSE TRUE,
              size |-> IF fs[r].kind = "file" THEN fs[r].size ELSE 0,
              full |-> task.full]

\* total after the loop over statResults.
RECURSIVE AddSizes(_, _)
AddSizes(total, rs) ==
    IF rs = <<>> THEN total
    ELSE AddSizes(IF Head(rs).ok /\ Head(rs).isFile THEN total + Head(rs).size ELSE total,
                  Tail(rs))

\* The directories the loop over statResults pushes to nextDirs.
StatDirs(rs) ==
    LET isDir(r) == r.ok /\ r.isDir
        full(r) == r.full
    IN  MapSeq(SelectSeq(rs, isDir), full)

SzDirsInFlight == {i \in 1..Len(szDirPc) : szDirPc[i] = "reading"}
SzStatsInFlight == {j \in 1..Len(szStatPc) : szStatPc[j] = "stating"}

\* The paths of the tasks of a batch that have not settled.
Unsettled(paths, pcs) == {paths[k] : k \in {j \in 1..Len(pcs) : pcs[j] # "settled"}}

\* getDirSizeBytes(dirPath, { followSymlinks }) is entered.
InitSize ==
    /\ RPIdle
    /\ MainIdle
    /\ FnIdle
    /\ SizePhaseIdle
    /\ fs \in SizeTrees
    /\ \E c \in SizeFailureCases : unreadable = c.readdir /\ unstatable = c.stat
    /\ unresolvable = {}
    /\ rootName = "node_modules"
    /\ followSymlinks \in BOOLEAN
    /\ maxDepth = [finite |-> FALSE, n |-> 0]
    /\ szTotal = 0
    /\ szPending = <<<<>>>>
    /\ szPc = "listing"
    /\ szRound = 0
    /\ szDirIndex = 0
    /\ szDirPc = <<"pending">>
    /\ szDirResults = <<<<>>>>
    /\ szNextDirs = <<>>
    /\ szStatTasks = <<>>
    /\ szStatIndex = 0
    /\ szStatPc = <<>>
    /\ szStatResults = <<>>
    /\ szListLog = <<>>
    /\ szStatLog = <<>>
    /\ szLeftRunning = {}

\* pending = nextDirs, and the while test.
EndRound(next) ==
    /\ szPending' = next
    /\ szRound' = szRound + 1
    /\ szDirIndex' = 0
    /\ szDirPc' = [k \in 1..Len(next) |-> "pending"]
    /\ szDirResults' = [k \in 1..Len(next) |-> <<>>]
    /\ szNextDirs' = <<>>
    /\ szStatTasks' = <<>>
    /\ szStatIndex' = 0
    /\ szStatPc' = <<>>
    /\ szStatResults' = <<>>
    /\ szPc' = IF Len(next) > 0 THEN "listing" ELSE "returned"

\* runParallel calls the next dirTask, which calls fs.readdir.
SzListStart ==
    /\ szPc = "listing"
    /\ szRound < MaxRounds
    /\ szDirIndex < Len(szPending)
    /\ Cardinality(SzDirsInFlight) < DIR_CONCURRENCY
    /\ szDirIndex' = szDirIndex + 1
    /\ szDirPc' = [szDirPc EXCEPT ![szDirIndex + 1] = "reading"]
    /\ szListLog' = Append(szListLog, szPending[szDirIndex + 1])
    /\ UNCHANGED <<unstatable, szTotal, szPending, szPc, szRound, szDirResults, szNextDirs,
                   szStatTasks, szStatIndex, szStatPc, szStatResults, szStatLog,
                   szLeftRunning>>
    /\ UNCHANGED <<fsVars, notSzVars>>

\* fs.readdir(dir) settles: the entries, or none when it threw.
SzListSettle(i) ==
    /\ szPc = "listing"
    /\ szDirIndex >= Min(DIR_CONCURRENCY, Len(szPending))
    /\ i \in 1..Len(szDirPc)
    /\ szDirPc[i] = "reading"
    /\ szDirPc' = [szDirPc EXCEPT ![i] = "settled"]
    /\ szDirResults' = [szDirResults EXCEPT ![i] =
                           IF ReaddirOk(szPending[i]) THEN EntryNames(szPending[i]) ELSE <<>>]
    /\ UNCHANGED <<unstatable, szTotal, szPending, szPc, szRound, szDirIndex, szNextDirs,
                   szStatTasks, szStatIndex, szStatPc, szStatResults, szListLog, szStatLog,
                   szLeftRunning>>
    /\ UNCHANGED <<fsVars, notSzVars>>

\* runParallel returns dirResults: nextDirs and statTasks are built in result
\* order; the stat batch is started if there is one, else the round ends.
SzListDone ==
    /\ szPc = "listing"
    /\ szDirIndex = Len(szPending)
    /\ BatchSettled(szDirPc)
    /\ LET n == Len(szPending)
           nextDirs == Flatten([k \in 1..n |-> UnitDirs(szPending[k], szDirResults[k])])
           statTasks == Flatten([k \in 1..n |-> UnitStats(szPending[k], szDirResults[k])])
       IN  /\ szLeftRunning' = szLeftRunning \cup Unsettled(szPending, szDirPc)
           /\ IF Len(statTasks) > 0
              THEN /\ szPc' = "stating"
                   /\ szNextDirs' = nextDirs
                   /\ szStatTasks' = statTasks
                   /\ szStatIndex' = 0
                   /\ szStatPc' = [k \in 1..Len(statTasks) |-> "pending"]
                   /\ szStatResults' = [k \in 1..Len(statTasks) |-> NoStat]
                   /\ UNCHANGED <<szPending, szRound, szDirIndex, szDirPc, szDirResults>>
              ELSE EndRound(nextDirs)
    /\ UNCHANGED <<unstatable, szTotal, szListLog, szStatLog>>
    /\ UNCHANGED <<fsVars, notSzVars>>

\* runParallel calls the next statTask, which calls fs.stat or fs.lstat.
SzStatStart ==
    /\ szPc = "stating"
    /\ szStatIndex < Len(szStatTasks)
    /\ Cardinality(SzStatsInFlight) < STAT_CONCURRENCY
    /\ szStatIndex' = szStatIndex + 1
    /\ szStatPc' = [szStatPc EXCEPT ![szStatIndex + 1] = "stating"]
    /\ szStatLog' = Append(szStatLog, szStatTasks[szStatIndex + 1].full)
    /\ UNCHANGED <<unstatable, szTotal, szPending, szPc, szRound, szDirIndex, szDirPc,
                   szDirResults, szNextDirs, szStatTasks, szStatResults, szListLog,
                   szLeftRunning>>
    /\ UNCHANGED <<fsVars, notSzVars>>

\* fs.stat / fs.lstat settles: the result record, or null when it threw.
SzStatSettle(j) ==
    /\ szPc = "stating"
    /\ szStatIndex >= Min(STAT_CONCURRENCY, Len(szStatTasks))
    /\ j \in 1..Len(szStatPc)
    /\ szStatPc[j] = "stating"
    /\ szStatPc' = [szStatPc EXCEPT ![j] = "settled"]
    /\ szStatResults' = [szStatResults EXCEPT ![j] = StatResult(szStatTasks[j])]
    /\ UNCHANGED <<unstatable, szTotal, szPending, szPc, szRound, szDirIndex, szDirPc,
                   szDirResults, szNextDirs, szStatTasks, szStatIndex, szListLog, szStatLog,
                   szLeftRunning>>
    /\ UNCHANGED <<fsVars, notSzVars>>

\* runParallel returns statResults: file sizes are added, directories pushed
\* to nextDirs, and the round ends.
SzStatDone ==
    /\ szPc = "stating"
    /\ szStatIndex = Len(szStatTasks)
    /\ BatchSettled(szStatPc)
    /\ szTotal' = AddSizes(szTotal, szStatResults)
    /\ szLeftRunning' = szLeftRunning \cup
          Unsettled([k \in 1..Len(szStatTasks) |-> szStatTasks[k].full], szStatPc)
    /\ EndRound(szNextDirs \o StatDirs(szStatResults))
    /\ UNCHANGED <<unstatable, szListLog, szStatLog>>
    /\ UNCHANGED <<fsVars, notSzVars>>

NextSize ==
    \/ SzListStart
    \/ \E i \in 1..Len(szDirPc) : SzListSettle(i)
    \/ SzListDone
    \/ SzStatStart
    \/ \E j \in 1..Len(szStatPc) : SzStatSettle(j)
    \/ SzStatDone

SpecSize == InitSize /\ [][NextSize]_vars

SpecSizeFair == SpecSize /\ WF_vars(NextSize)

\* Either walk is called: the locator or the size accumulator.
InitWalk == InitFind \/ InitSize
NextWalk == NextFind \/ NextSize
SpecWalk == InitWalk /\ [][NextWalk]_vars

\* ------------------------------------------ claims about the two level walks
\* C13: level barrier. In findNodeModules and in getDirSizeBytes no task of a
\* level was still running when the next level began; in findNodeModules every
\* node of the frontier of level N has depth N, onProgress has been called
\* exactly N times when level N runs, and the k-th call reported exactly the
\* nodes of the levels before k. In getDirSizeBytes every pending directory of
\* round N lies N below dirPath.
C13_LevelBarrier ==
    /\ leftRunning = {}
    /\ szLeftRunning = {}
    /\ \A n \in Range(currentLevel) : n.depth = Len(progressLog)
    /\ \A n \in scanned : n.depth <= Len(progressLog)
    /\ \A k \in 1..Len(progressLog) :
          progressLog[k].dirsScanned = Cardinality({n \in scanned : n.depth < k})
    /\ \A p \in Range(szPending) : Len(p) = szRound
    /\ \A p \in Range(szListLog) : Len(p) <= szRound
    /\ \A p \in Range(szStatLog) : Len(p) <= szRound + 1

\* A scan of three levels, the second of several units, that returned.
C13_Witness ==
    /\ fnPc = "returned"
    /\ Len(progressLog) = 3
    /\ progressLog[2].dirsScanned >= 3
    /\ Cardinality(scanned) = progressLog[3].dirsScanned

\* Every listing and every stat of the call succeeds.
AllSucceed == unreadable = {} /\ unstatable = {}

FilesOf(tree) == {p \in DOMAIN tree : tree[p].kind = "file"}
DirsOf(tree) == {p \in DOMAIN tree : tree[p].kind = "dir"}

RECURSIVE SumOfSizes(_, _)
SumOfSizes(tree, ps) ==
    IF ps = {} THEN 0
    ELSE LET p == CHOOSE q \in ps : TRUE
         IN  tree[p].size + SumOfSizes(tree, ps \ {p})

NoDuplicates(s) == \A j, k \in 1..Len(s) : j < k => s[j] # s[k]

\* C14: size additivity. With --follow-symlinks off and every listing and stat
\* succeeding, the total returned is the sum of the sizes of the regular files
\* below the directory, those under nested node_modules, .git and .cache
\* included; each directory is listed once and each file stat'ed once; symbolic
\* links and empty directories add nothing: files of 100, 200 and 300 bytes
\* beside an empty subdirectory give 600.
C14_SizeAdditivity ==
    szPc = "returned" /\ ~followSymlinks /\ AllSucceed =>
       /\ szTotal = SumOfSizes(fs, FilesOf(fs))
       /\ NoDuplicates(szStatLog) /\ Range(szStatLog) = FilesOf(fs)
       /\ NoDuplicates(szListLog) /\ Range(szListLog) = DirsOf(fs)
       /\ fs = (<<>> :> Dir) @@ OptExample => szTotal = 600

\* The example files, the nested node_modules, .git and .cache and a symbolic
\* link to a file: 100 + 200 + 300 + 1000 + 4000.
C14_Witness ==
    /\ szPc = "returned"
    /\ ~followSymlinks
    /\ AllSucceed
    /\ fs = (<<>> :> Dir) @@ OptExample @@ OptInnerModules @@ OptInnerGit
              @@ (<<"lnk">> :> Link(<<"f">>))
    /\ szTotal = 5600

\* A path handed to readdir that denotes the same directory as a proper prefix
\* of itself: the walk has come back to a directory it is already below.
Reentered(p) == \E k \in 0..(Len(p) - 1) : Resolve(SubSeq(p, 1, k)) = Resolve(p)

C15_TerminatesWithoutSymlinks == ~followSymlinks ~> szPc = "returned"

\* A call is only given up at the round limit after it has gone round a cycle.
C15_GivenUpOnlyInCycle ==
    szPc # "returned" /\ szRound >= MaxRounds => \E p \in Range(szPending) : Reentered(p)

\* ------------------------------------------------------ main's size phase
\* The largest number of matches sized together.
MaxSized == 2
\* A match of so many subdirectories that two of them exceed DIR_CONCURRENCY.
WideDir == 65
\* A match of more subdirectories than DIR_CONCURRENCY.
VeryWideDir == 130
\* A match of so many files that two of them exceed STAT_CONCURRENCY.
ManyFiles == 129

SubdirCounts == {0, WideDir, VeryWideDir}
FileCounts == {0, ManyFiles}

\* runParallel(sizeTasks, DIR_CONCURRENCY) is called on the matches.
InitSizePhase ==
    /\ RPIdle
    /\ FindIdle
    /\ MainIdle
    /\ unstatable = {}
    /\ szTotal = 0
    /\ szPending = <<>>
    /\ szPc = "idle"
    /\ szRound = 0
    /\ szDirIndex = 0
    /\ szDirPc = <<>>
    /\ szDirResults = <<>>
    /\ szNextDirs = <<>>
    /\ szStatTasks = <<>>
    /\ szStatIndex = 0
    /\ szStatPc = <<>>
    /\ szStatResults = <<>>
    /\ szListLog = <<>>
    /\ szStatLog = <<>>
    /\ szLeftRunning = {}
    /\ \E n \in 1..MaxSized :
          /\ spFiles \in [1..n -> FileCounts]
          /\ spSubdirs \in [1..n -> SubdirCounts]
          /\ spPc = [k \in 1..n |-> "unstarted"]
          /\ spWaiting = [k \in 1..n |-> 0]
          /\ spFlying = [k \in 1..n |-> 0]
    /\ spStarted = 0
    /\ spPhase = "sizing"

SizeCallsInFlight == {k \in 1..Len(spPc) : spPc[k] \in {"list0", "stat0", "list1"}}

\* A batch of n alike tasks handed to runParallel with the given limit: what
\* is in flight and what waits once the first workers have made their calls.
BatchOf(pc, n, limit) == [pc |-> pc, flying |-> Min(limit, n), waiting |-> n - Min(limit, n)]

\* Where a call goes when its batch has settled: from the listing of the match
\* to the stat batch of its files, if any; then to the listing of its
\* subdirectories, if any; then it returns (they are empty).
AfterBatch(k) ==
    IF spPc[k] = "list0" /\ spFiles[k] > 0 THEN BatchOf("stat0", spFiles[k], STAT_CONCURRENCY)
    ELSE IF spPc[k] \in {"list0", "stat0"} /\ spSubdirs[k] > 0
         THEN BatchOf("list1", spSubdirs[k], DIR_CONCURRENCY)
    ELSE BatchOf("done", 0, 0)

\* runParallel calls the next sizeTask, which enters getDirSizeBytes and lists
\* the match itself.
SpCallStart ==
    /\ spPhase = "sizing"
    /\ spStarted < Len(spPc)
    /\ Cardinality(SizeCallsInFlight) < DIR_CONCURRENCY
    /\ spStarted' = spStarted + 1
    /\ spPc' = [spPc EXCEPT ![spStarted + 1] = "list0"]
    /\ spFlying' = [spFlying EXCEPT ![spStarted + 1] = 1]
    /\ UNCHANGED <<spFiles, spSubdirs, spWaiting, spPhase>>
    /\ UNCHANGED notSpVars

\* One task of call k settles. Its worker calls the next waiting task of the
\* batch; when none is left in flight the batch is over and the call goes on.
SpTaskSettle(k) ==
    /\ spPhase = "sizing"
    /\ spStarted >= Min(DIR_CONCURRENCY, Len(spPc))
    /\ k \in SizeCallsInFlight
    /\ spFlying[k] > 0
    /\ IF spWaiting[k] > 0
       THEN /\ spWaiting' = [spWaiting EXCEPT ![k] = @ - 1]
            /\ UNCHANGED <<spPc, spFlying>>
       ELSE IF spFlying[k] > 1
       THEN /\ spFlying' = [spFlying EXCEPT ![k] = @ - 1]
            /\ UNCHANGED <<spPc, spWaiting>>
       ELSE /\ spPc' = [spPc EXCEPT ![k] = AfterBatch(k).pc]
            /\ spFlying' = [spFlying EXCEPT ![k] = AfterBatch(k).flying]
            /\ spWaiting' = [spWaiting EXCEPT ![k] = AfterBatch(k).waiting]
    /\ UNCHANGED <<spFiles, spSubdirs, spStarted, spPhase>>
    /\ UNCHANGED notSpVars

\* runParallel(sizeTasks) returns the rows.
SpReturn ==
    /\ spPhase = "sizing"
    /\ \A k \in 1..Len(spPc) : spPc[k] = "done"
    /\ spPhase' = "returned"
    /\ UNCHANGED <<spFiles, spSubdirs, spStarted, spPc, spWaiting, spFlying>>
    /\ UNCHANGED notSpVars

NextSizePhase ==
    \/ SpCallStart
    \/ \E k \in 1..Len(spPc) : SpTaskSettle(k)
    \/ SpReturn

SpecSizePhase == InitSizePhase /\ [][NextSizePhase]_vars

\* --------------------------------------------- claims about the size phase
RECURSIVE SumSeq(_)
SumSeq(ns) == IF ns = <<>> THEN 0 ELSE Head(ns) + SumSeq(Tail(ns))

\* The fs.readdir calls, and the stat calls, in flight over all the calls.
ListingsInFlight ==
    SumSeq([k \in 1..Len(spPc) |-> IF spPc[k] \in {"list0", "list1"} THEN spFlying[k] ELSE 0])
StatsInFlight ==
    SumSeq([k \in 1..Len(spPc) |-> IF spPc[k] = "stat0" THEN spFlying[k] ELSE 0])

\* C19: directory-read ceiling during the size phase. While several matches
\* are sized together, the directory listings in flight over all the
\* getDirSizeBytes calls never exceed DIR_CONCURRENCY and the stat calls in
\* flight never exceed STAT_CONCURRENCY.
C19_SizePhaseCeilings ==
    /\ ListingsInFlight <= DIR_CONCURRENCY
    /\ StatsInFlight <= STAT_CONCURRENCY

\* Within one getDirSizeBytes call the two limits hold: the part of C19 the
\* code keeps.
C19_PerCallCeilings ==
    \A k \in 1..Len(spPc) :
       /\ spPc[k] \in {"list0", "list1"} => spFlying[k] <= DIR_CONCURRENCY
       /\ spPc[k] = "stat0" => spFlying[k] <= STAT_CONCURRENCY

\* ------------------------------------------------------------------- main
\* The largest number of matches the scan hands to main.
MaxFound == 3
\* The largest size of a match, in bytes.
MaxSize == 1
\* The longest line typed at the prompt, in characters.
MaxAnswerLen == 3

DELETE_CONCURRENCY == 4

\* The characters a typed line is made of.
Chars == {"y", "Y", "e", "s", "n", " "}
Answers == UNION {[1..k -> Chars] : k \in 0..MaxAnswerLen}

IsSpace(c) == c = " "

\* String.prototype.trim: white space removed at both ends.
RECURSIVE TrimStart(_)
TrimStart(str) ==
    IF str # <<>> /\ IsSpace(Head(str)) THEN TrimStart(Tail(str)) ELSE str
RECURSIVE TrimEnd(_)
TrimEnd(str) ==
    IF str # <<>> /\ IsSpace(str[Len(str)]) THEN TrimEnd(Front(str)) ELSE str
Trim(str) == TrimEnd(TrimStart(str))

\* String.prototype.toLowerCase
LowerChar(c) ==
    CASE c = "Y" -> "y"
      [] c = "E" -> "e"
      [] c = "S" -> "s"
      [] OTHER -> c
ToLowerCase(str) == [k \in 1..Len(str) |-> LowerChar(str[k])]

\* !(answer !== "y" && answer !== "yes"), answer being the trimmed, lower-cased line
ConfirmedUnlessNo(line) == ToLowerCase(Trim(line)) \notin {<<"n">>, <<"n", "o">>}
Confirmed(line) == ToLowerCase(Trim(line)) \in {<<"y">>, <<"y", "e", "s">>}

\* if (found.length === 0) { ...; process.exit(0) }
NothingFound(list) == Len(list) = 0

\* rows.sort((a, b) => (b.size || 0) - (a.size || 0)): stable, largest first.
RECURSIVE InsertRow(_, _)
InsertRow(r, sorted) ==
    IF sorted = <<>> THEN <<r>>
    ELSE IF Head(sorted).size >= r.size
         THEN <<Head(sorted)>> \o InsertRow(r, Tail(sorted))
         ELSE <<r>> \o sorted
RECURSIVE SortRows(_)
SortRows(rs) ==
    IF rs = <<>> THEN <<>> ELSE InsertRow(rs[Len(rs)], SortRows(Front(rs)))

\* rows.reduce((sum, r) => sum + (r.size || 0), 0)
RECURSIVE SumSizes(_)
SumSizes(rs) == IF rs = <<>> THEN 0 ELSE Head(rs).size + SumSizes(Tail(rs))

\* return { nmPath, size }
RowOfParent(nmPath, size) == [nmPath |-> Front(nmPath), size |-> size]
RowOf(nmPath, size) == [nmPath |-> nmPath, size |-> size]

\* main is entered with its options parsed.
InitMain ==
    /\ RPIdle
    /\ SizeIdle
    /\ FindIdle
    /\ rootExists \in BOOLEAN
    /\ optYes \in BOOLEAN
    /\ optJson \in BOOLEAN
    /\ mainPc = "start"
    /\ exitCode = -1
    /\ found = <<>>
    /\ rows = <<>>
    /\ totalBytes = 0
    /\ shown = "none"
    /\ asked = FALSE
    /\ answer = <<>>
    /\ deleteIndex = 0
    /\ dpc = <<>>
    /\ removeCalls = <<>>
    /\ deleteErrors = <<>>
    /\ removed = 0
    /\ failed = 0
    /\ phases = <<>>
    /\ rmFails = AnyRemovalMayFail

\* if (!(await pathExists(root))) { ...; process.exit(1) }
CheckRoot ==
    /\ mainPc = "start"
    /\ IF rootExists
       THEN /\ mainPc' = "scan"
            /\ UNCHANGED exitCode
       ELSE /\ mainPc' = "exit"
            /\ exitCode' = 1
    /\ UNCHANGED <<rmFails, rootExists, optYes, optJson, found, rows, totalBytes, shown, asked, answer,
                   deleteIndex, dpc, removeCalls, deleteErrors, removed, failed, phases>>
    /\ UNCHANGED notMnVars

\* findNodeModules returns: n matches, here the paths 1..n; none ends the run.
ScanDone ==
    /\ mainPc = "scan"
    /\ \E n \in 0..MaxFound :
          /\ found' = [k \in 1..n |-> k]
          /\ IF NothingFound(found')
             THEN /\ mainPc' = "exit"
                  /\ exitCode' = 0
             ELSE /\ mainPc' = "size"
                  /\ UNCHANGED exitCode
    /\ phases' = Append(phases, "scan")
    /\ UNCHANGED <<rmFails, rootExists, optYes, optJson, rows, totalBytes, shown, asked, answer,
                   deleteIndex, dpc, removeCalls, deleteErrors, removed, failed>>
    /\ UNCHANGED notMnVars

\* runParallel(sizeTasks) returns one row per match; then, in one piece, the
\* total, the sort, the JSON or the table, and either the prompt or, with
\* --yes, the start of the deletion.
SizesDone ==
    /\ mainPc = "size"
    /\ \E sizes \in [1..Len(found) -> 0..MaxSize] :
          LET unsorted == [k \in 1..Len(found) |-> RowOf(found[k], sizes[k])]
          IN  /\ totalBytes' = SumSizes(unsorted)
              /\ rows' = SortRows(unsorted)
    /\ shown' = IF optJson THEN "json" ELSE "table"
    /\ phases' = phases \o <<"size", "display">>
    /\ dpc' = [k \in 1..Len(found) |-> "pending"]
    /\ IF optYes
       THEN /\ mainPc' = "delete"
            /\ UNCHANGED asked
       ELSE /\ mainPc' = "prompt"
            /\ asked' = TRUE
    /\ UNCHANGED <<rmFails, rootExists, optYes, optJson, exitCode, found, answer, deleteIndex,
                   removeCalls, deleteErrors, removed, failed>>
    /\ UNCHANGED notMnVars

\* rl.question resolves with the typed line.
Answer ==
    /\ mainPc = "prompt"
    /\ \E line \in Answers :
          /\ answer' = line
          /\ IF Confirmed(line)
             THEN /\ mainPc' = "delete"
                  /\ UNCHANGED exitCode
             ELSE /\ mainPc' = "exit"
                  /\ exitCode' = 0
    /\ phases' = Append(phases, "confirm")
    /\ UNCHANGED <<rmFails, rootExists, optYes, optJson, found, rows, totalBytes, shown, asked,
                   deleteIndex, dpc, removeCalls, deleteErrors, removed, failed>>
    /\ UNCHANGED notMnVars

\* Whether fs.rm(dirPath, { recursive, force, maxRetries, retryDelay }) succeeds.
RemovalOutcomes(dirPath) ==
    IF rmFails.fixed THEN {dirPath \notin rmFails.paths} ELSE BOOLEAN

\* deleteErrors.push({ path: r.nmPath, error: e?.message ?? e })
ErrorsAfterLost(errs, nmPath) == errs
ErrorsAfter(errs, nmPath) == Append(errs, [path |-> nmPath, error |-> "EACCES"])

RemovalsInFlight == {i \in 1..Len(dpc) : dpc[i] = "removing"}

\* runParallel(deleteTasks, DELETE_CONCURRENCY) calls the next delete task,
\* which runs up to `await removeDir(r.nmPath)`.
DeleteStart ==
    /\ mainPc = "delete"
    /\ deleteIndex < Len(rows)
    /\ Cardinality(RemovalsInFlight) < DELETE_CONCURRENCY
    /\ deleteIndex' = deleteIndex + 1
    /\ dpc' = [dpc EXCEPT ![deleteIndex + 1] = "removing"]
    /\ removeCalls' = Append(removeCalls, rows[deleteIndex + 1].nmPath)
    /\ UNCHANGED <<rmFails, rootExists, optYes, optJson, mainPc, exitCode, found, rows, totalBytes,
                   shown, asked, answer, deleteErrors, removed, failed, phases>>
    /\ UNCHANGED notMnVars

\* fs.rm settles: the task returns success, or catches and records the error.
RemoveSettle(i) ==
    /\ mainPc = "delete"
    /\ deleteIndex >= Min(DELETE_CONCURRENCY, Len(rows))
    /\ i \in 1..Len(dpc)
    /\ dpc[i] = "removing"
    /\ \E ok \in RemovalOutcomes(rows[i].nmPath) :
          IF ok
          THEN /\ dpc' = [dpc EXCEPT ![i] = "ok"]
               /\ UNCHANGED deleteErrors
          ELSE /\ dpc' = [dpc EXCEPT ![i] = "failed"]
               /\ deleteErrors' = ErrorsAfter(deleteErrors, rows[i].nmPath)
    /\ UNCHANGED <<rmFails, rootExists, optYes, optJson, mainPc, exitCode, found, rows, totalBytes,
                   shown, asked, answer, deleteIndex, removeCalls, removed, failed, phases>>
    /\ UNCHANGED notMnVars

\* runParallel(deleteTasks) returns: the outcomes are counted and reported.
DeleteDone ==
    /\ mainPc = "delete"
    /\ deleteIndex = Len(rows)
    /\ \A i \in 1..Len(dpc) : dpc[i] \in {"ok", "failed"}
    /\ removed' = Cardinality({i \in 1..Len(dpc) : dpc[i] = "ok"})
    /\ failed' = Cardinality({i \in 1..Len(dpc) : dpc[i] # "ok"})
    /\ mainPc' = "done"
    /\ phases' = Append(phases, "delete")
    /\ UNCHANGED <<rmFails, rootExists, optYes, optJson, exitCode, found, rows, totalBytes, shown,
                   asked, answer, deleteIndex, dpc, removeCalls, deleteErrors>>
    /\ UNCHANGED notMnVars

NextMain ==
    \/ CheckRoot
    \/ ScanDone
    \/ SizesDone
    \/ Answer
    \/ DeleteStart
    \/ \E i \in 1..Len(dpc) : RemoveSettle(i)
    \/ DeleteDone

SpecMain == InitMain /\ [][NextMain]_vars

\* The largest number of targets handed to the deletion.
MaxTargets == 5

\* The deletion is entered (--yes) with N rows, the removals that fail fixed.
InitDelete ==
    /\ RPIdle
    /\ SizeIdle
    /\ FindIdle
    /\ rootExists = TRUE
    /\ optYes = TRUE
    /\ optJson = FALSE
    /\ mainPc = "delete"
    /\ exitCode = -1
    /\ \E n \in 1..MaxTargets :
          /\ found = [k \in 1..n |-> k]
          /\ rows = [k \in 1..n |-> RowOf(k, 0)]
          /\ dpc = [k \in 1..n |-> "pending"]
          /\ \E F \in SUBSET (1..n) : rmFails = [fixed |-> TRUE, paths |-> F]
    /\ totalBytes = 0
    /\ shown = "table"
    /\ asked = FALSE
    /\ answer = <<>>
    /\ deleteIndex = 0
    /\ removeCalls = <<>>
    /\ deleteErrors = <<>>
    /\ removed = 0
    /\ failed = 0
    /\ phases = <<"scan", "size", "display">>

NextDelete ==
    \/ DeleteStart
    \/ \E i \in 1..Len(dpc) : RemoveSettle(i)
    \/ DeleteDone

SpecDelete == InitDelete /\ [][NextDelete]_vars

\* main --yes has checked the root and called findNodeModules, with no depth
\* limit, on a tree that lists everywhere.
InitRun ==
    /\ RPIdle
    /\ SizeIdle
    /\ FindEntered
    /\ rootName = "app"
    /\ ~maxDepth.finite
    /\ unreadable = {}
    /\ unresolvable = {}
    /\ rootExists = TRUE
    /\ optYes = TRUE
    /\ optJson = FALSE
    /\ mainPc = "scan"
    /\ exitCode = -1
    /\ found = <<>>
    /\ rows = <<>>
    /\ totalBytes = 0
    /\ shown = "none"
    /\ asked = FALSE
    /\ answer = <<>>
    /\ deleteIndex = 0
    /\ dpc = <<>>
    /\ removeCalls = <<>>
    /\ deleteErrors = <<>>
    /\ removed = 0
    /\ failed = 0
    /\ phases = <<>>
    /\ rmFails = AnyRemovalMayFail

\* const found = await findNodeModules(root, ...): the matches it returned.
ScanReturned ==
    /\ mainPc = "scan"
    /\ fnPc = "returned"
    /\ found' = nmResults
    /\ IF NothingFound(found')
       THEN /\ mainPc' = "exit"
            /\ exitCode' = 0
       ELSE /\ mainPc' = "size"
            /\ UNCHANGED exitCode
    /\ phases' = Append(phases, "scan")
    /\ UNCHANGED <<rmFails, rootExists, optYes, optJson, rows, totalBytes, shown, asked, answer,
                   deleteIndex, dpc, removeCalls, deleteErrors, removed, failed>>
    /\ UNCHANGED notMnVars

\* One run of main --yes, the scan included.
NextRun ==
    \/ NextFind
    \/ ScanReturned
    \/ SizesDone
    \/ NextDelete

SpecRun == InitRun /\ [][NextRun]_vars

\* ------------------------------------------------------ claims about main

\* The run has come to the point where removal is allowed: scan, size and
\* display are over, in this order.
PhasesBeforeDelete == Len(phases) >= 3 /\ SubSeq(phases, 1, 3) = <<"scan", "size", "display">>

\* The run ended, or goes on, without prompt and without removal.
NoPromptNoRemoval == ~asked /\ removeCalls = <<>> /\ mainPc \notin {"prompt", "delete", "done"}

\* C6 as stated: removeDir is called only after scan, size and display, and
\* with --yes or the typed line being y or yes; after any other line, and when
\* the root is missing or nothing is found, there is no removal (and in the
\* last two cases no prompt).
C6_AsStated ==
    /\ removeCalls # <<>> =>
          /\ PhasesBeforeDelete
          /\ optYes \/ (asked /\ answer \in {<<"y">>, <<"y", "e", "s">>})
    /\ (asked /\ mainPc # "prompt" /\ answer \notin {<<"y">>, <<"y", "e", "s">>}) =>
          (mainPc = "exit" /\ removeCalls = <<>>)
    /\ (mainPc # "start" /\ ~rootExists) => (mainPc = "exit" /\ NoPromptNoRemoval)
    /\ (mainPc \notin {"start", "scan"} /\ found = <<>>) => (mainPc = "exit" /\ NoPromptNoRemoval)

\* C6, amended: the same, the accepted lines being those that are y or yes
\* once trimmed and lower-cased.
C6_ConfirmBeforeDelete ==
    /\ removeCalls # <<>> =>
          /\ PhasesBeforeDelete
          /\ optYes \/ (asked /\ ToLowerCase(Trim(answer)) \in {<<"y">>, <<"y", "e", "s">>})
    /\ (asked /\ mainPc # "prompt"
          /\ ToLowerCase(Trim(answer)) \notin {<<"y">>, <<"y", "e", "s">>}) =>
          (mainPc = "exit" /\ removeCalls = <<>>)
    /\ (mainPc # "start" /\ ~rootExists) => (mainPc = "exit" /\ NoPromptNoRemoval)
    /\ (mainPc \notin {"start", "scan"} /\ found = <<>>) => (mainPc = "exit" /\ NoPromptNoRemoval)

Targets == {rows[k].nmPath : k \in 1..Len(rows)}

\* C16: deletion partial-failure tolerance. For N targets of which those in F
\* always fail: no target is handed to removeDir twice, at most
\* DELETE_CONCURRENCY removals are in flight, and when the deletion is over
\* every target was attempted once, those outside F are removed, removed is
\* N - |F|, failed is |F|, their sum N, and the failure list holds exactly the
\* paths of F, each once and with an error description.
C16_PartialFailureTolerance ==
    LET NT == Len(rows)
        F == rmFails.paths \cap Targets
    IN  /\ Cardinality(RemovalsInFlight) <= DELETE_CONCURRENCY
        /\ NoDuplicates(removeCalls)
        /\ mainPc = "done" =>
              /\ Len(removeCalls) = NT
              /\ Range(removeCalls) = Targets
              /\ \A i \in 1..NT : dpc[i] = IF rows[i].nmPath \in F THEN "failed" ELSE "ok"
              /\ removed = NT - Cardinality(F)
              /\ failed = Cardinality(F)
              /\ removed + failed = NT
              /\ Len(deleteErrors) = Cardinality(F)
              /\ {e.path : e \in Range(deleteErrors)} = F
              /\ \A e \in Range(deleteErrors) : e.error # ""

\* Five targets of which the third fails: four removed, one failure recorded.
C16_Witness ==
    /\ mainPc = "done"
    /\ rmFails.fixed
    /\ Len(rows) = 5
    /\ rmFails.paths = {rows[3].nmPath}
    /\ removed = 4
    /\ failed = 1
    /\ Len(deleteErrors) = 1
    /\ deleteErrors[1].path = rows[3].nmPath

\* C20: deletion targets. In every run each path handed to removeDir is one of
\* the match paths findNodeModules returned in that run, ends in node_modules,
\* lies strictly below the resolved root (the root joined with one entry name
\* or more), and is handed to removeDir once at most; there is no other removal.
C20_DeletionTargets ==
    /\ removeCalls # <<>> => fnPc = "returned" /\ found = nmResults
    /\ \A k \in 1..Len(removeCalls) :
          /\ removeCalls[k] \in Range(nmResults)
          /\ Len(removeCalls[k]) >= 1
          /\ Last(removeCalls[k]) = "node_modules"
          /\ \A c \in 1..Len(removeCalls[k]) : removeCalls[k][c] \in Range(NameSeq)
    /\ NoDuplicates(removeCalls)
    /\ Len(removeCalls) <= Len(nmResults)

\* A run that found three matches or more, one of them through a symbolic
\* link, and handed each to removeDir.
C20_Witness ==
    /\ mainPc = "done"
    /\ followSymlinks
    /\ Len(nmResults) >= 3
    /\ Range(removeCalls) = Range(nmResults)
    /\ \E m \in Range(removeCalls) : m[1] = "lnk"

\* Without --yes, the user typed a line that is yes only once lower-cased, and
\* every match was handed to removeDir.
C6_Witness ==
    /\ mainPc = "done"
    /\ ~optYes
    /\ asked
    /\ answer = <<"Y", "e", "s">>
    /\ Len(removeCalls) = Len(found)
    /\ Len(found) >= 2

=============================================================================
